---- MODULE Spec2Model ----
(***************************************************************************)
(* The document-level grammar driver of toml_edit as vendored by           *)
(* cargo-sort: src/toml_edit/parser/document.rs.                           *)
(*                                                                         *)
(* The input text is a sequence of one-character strings.  Positions are   *)
(* 1-based indices into it; Len(input) + 1 is end-of-input.                *)
(***************************************************************************)
EXTENDS Integers, Sequences, FiniteSets, TLC

\* The number of text chunks an input is put together from.
MaxChunks == 3

----------------------------------------------------------------------------
(* Characters *)

WsChars  == {" ", "\t"}
Digits   == {"1", "2"}
\* unquoted-key characters (letters and digits)
KeyChars == {"a", "b", "1", "2"}
Alphabet == {" ", "\t", "\n", "\r", "#", "=", "[", "]", ".", "\"", "!", "c"} \cup KeyChars
\* non-eol = %x09 / %x20-10FFFF
NonEol   == Alphabet \ {"\n", "\r"}

KEYVAL_SEP == "="
COMMENT_START_SYMBOL == "#"

\* take_while: the first position at or after i whose character is not in S.
ScanEnd(s, i, S) ==
  LET stops == {j \in i..Len(s) : s[j] \notin S}
  IN  IF stops = {} THEN Len(s) + 1
      ELSE CHOOSE j \in stops : \A k \in stops : j <= k

At(s, i) == IF i >= 1 /\ i <= Len(s) THEN s[i] ELSE "EOF"

Slice(s, i, j) == SubSeq(s, i, j - 1)

----------------------------------------------------------------------------
(* Lexical primitives (trivia.rs, key.rs, value.rs).  Each takes the text  *)
(* and a start position and returns a record: ok, the position after the   *)
(* match (end), or the position of the failure (at).  A failure with       *)
(* at = start consumed nothing.                                            *)

Fail(i) == [ok |-> FALSE, at |-> i]

\* ws = *wschar
ws(s, i) == ScanEnd(s, i, WsChars)

\* comment = comment-start-symbol *non-eol
comment(s, i) ==
  IF At(s, i) = COMMENT_START_SYMBOL
  THEN [ok |-> TRUE, end |-> ScanEnd(s, i + 1, NonEol)]
  ELSE Fail(i)

\* newline = ( %x0A / %x0D.0A )
newline(s, i) ==
  IF At(s, i) = "\n" THEN [ok |-> TRUE, end |-> i + 1]
  ELSE IF At(s, i) = "\r"
       THEN IF At(s, i + 1) = "\n" THEN [ok |-> TRUE, end |-> i + 2]
            ELSE Fail(i + 1)
       ELSE Fail(i)

\* line-ending = newline / eof
line_ending(s, i) ==
  IF i > Len(s) THEN [ok |-> TRUE, end |-> i] ELSE newline(s, i)

\* line-trailing = ws [comment] line-ending, captured through the terminator
line_trailing(s, i) ==
  LET w == ws(s, i)
      c == comment(s, w)
      k == IF c.ok THEN c.end ELSE w
      e == line_ending(s, k)
  IN  IF e.ok THEN [ok |-> TRUE, end |-> e.end, text |-> Slice(s, i, e.end)]
      ELSE Fail(e.at)

\* key = unquoted-key / quoted-key; returns the raw text and the cooked key
key(s, i) ==
  IF At(s, i) \in KeyChars
  THEN LET e == ScanEnd(s, i, KeyChars)
       IN  [ok |-> TRUE, end |-> e, raw |-> Slice(s, i, e), key |-> Slice(s, i, e)]
  ELSE IF At(s, i) = "\""
       THEN LET e == ScanEnd(s, i + 1, NonEol \ {"\""})
            IN  IF At(s, e) = "\""
                THEN [ok |-> TRUE, end |-> e + 1, raw |-> Slice(s, i, e + 1),
                      key |-> Slice(s, i + 1, e)]
                ELSE Fail(e)
       ELSE Fail(i)

\* val: an integer literal
value(s, i) ==
  IF At(s, i) \in Digits
  THEN LET e == ScanEnd(s, i, Digits)
       IN  [ok |-> TRUE, end |-> e, raw |-> Slice(s, i, e)]
  ELSE Fail(i)

----------------------------------------------------------------------------
(* Data model (decor.rs, table.rs, document.rs of the tree) *)

Decor(prefix, suffix) == [prefix |-> prefix, suffix |-> suffix]

\* Repr::new(prefix, raw, suffix)
Repr(prefix, raw, suffix) == [decor |-> Decor(prefix, suffix), raw_value |-> raw]

\* decorated(v, pre, suf): Item::Value
decorated(raw, pre, suf) == [tag |-> "Value", decor |-> Decor(pre, suf), raw_value |-> raw]

ItemTable == [tag |-> "Table", decor |-> Decor(<<>>, <<>>), raw_value |-> <<>>]

TableKeyValue(k, v) == [key |-> k, value |-> v]

\* A table: its entries in insertion order, and for a table opened by a
\* header the header's decoration, text and position.
NewTable(implicit, decor, header, position) ==
  [items |-> <<>>, implicit |-> implicit, decor |-> decor,
   header |-> header, position |-> position]

RootPath == <<>>

\* TomlParser::default()
DefaultParser ==
  [document |-> [trailing |-> <<>>,
                 tables   |-> (RootPath :> NewTable(FALSE, Decor(<<>>, <<>>), <<>>, 0))],
   current_table_path     |-> RootPath,
   current_table_position |-> 0]

\* Table::contains_key
contains_key(table, k) == \E n \in 1..Len(table.items) : table.items[n].key = k

\* Table lookup by key
get(table, k) ==
  LET n == CHOOSE n \in 1..Len(table.items) : table.items[n].key = k
  IN  table.items[n].kv

----------------------------------------------------------------------------
(* Semantic errors and parse results *)

NoError == [kind |-> "None", key |-> <<>>, table |-> ""]
SyntaxError == [kind |-> "Syntax", key |-> <<>>, table |-> ""]
Unparsed == [kind |-> "Unparsed", key |-> <<>>, table |-> ""]
\* CustomError::DuplicateKey { key, table }
DuplicateKey(k, t) == [kind |-> "DuplicateKey", key |-> k, table |-> t]

ResOk == [kind |-> "Ok", error |-> NoError, at |-> 0]
ResErr(e, i) == [kind |-> "Err", error |-> e, at |-> i]
ResNone == [kind |-> "None", error |-> NoError, at |-> 0]
ResPanic == [kind |-> "Panic", error |-> NoError, at |-> 0]

----------------------------------------------------------------------------
(* Table path resolution (TomlParser::descend_path) *)

\* The table addressed by path, when every segment of it names a sub-table.
descend_path(tables, path) ==
  IF /\ path \in DOMAIN tables
     /\ \A n \in 1..Len(path) :
          /\ SubSeq(path, 1, n - 1) \in DOMAIN tables
          /\ contains_key(tables[SubSeq(path, 1, n - 1)], path[n])
          /\ get(tables[SubSeq(path, 1, n - 1)], path[n]).value.tag = "Table"
  THEN [ok |-> TRUE, path |-> path]
  ELSE [ok |-> FALSE, path |-> path]

----------------------------------------------------------------------------
(* The handlers of TomlParser (document.rs 115-143) *)

\* on_ws that forgets the text it was given
on_ws_dropping(self, w) == self

\* fn on_ws(&mut self, w: &str)
on_ws(self, w) ==
  [self EXCEPT !.document.trailing = @ \o w]

\* on_comment that pushes the comment without its line ending
on_comment_without_ending(self, c, e) ==
  [self EXCEPT !.document.trailing = @ \o c]

\* on_comment that pushes the line ending before the comment
on_comment_reversed(self, c, e) ==
  [self EXCEPT !.document.trailing = (@ \o e) \o c]

\* fn on_comment(&mut self, c: &str, e: &str)
on_comment(self, c, e) ==
  [self EXCEPT !.document.trailing = (@ \o c) \o e]

\* reading the buffer without clearing it
take_trailing_cloning(self) == self

\* let prefix = mem::take(&mut self.document.trailing)
take_trailing(self) == [self EXCEPT !.document.trailing = <<>>]

\* kv.key.decor.prefix = prefix + &kv.key.decor.prefix
with_prefix(kv, prefix) == [kv EXCEPT !.key.decor.prefix = prefix \o @]

\* resolving against the root whatever the active path is
keyval_table_root(self) == descend_path(self.document.tables, RootPath)

\* Self::descend_path(root, self.current_table_path.as_slice(), 0)
keyval_table(self) == descend_path(self.document.tables, self.current_table_path)

\* inserting at the front of the map
items_insert_front(items, k, tkv) == <<[key |-> k, kv |-> tkv]>> \o items

\* a duplicate check that looks in every table of the document
is_duplicate_anywhere(tables, path, k) ==
  \E p \in DOMAIN tables : contains_key(tables[p], k)

\* a duplicate check that never fires
is_duplicate_never(tables, path, k) == FALSE

\* if table.contains_key(&key)
is_duplicate(tables, path, k) == contains_key(tables[path], k)

\* table.items.insert(key, tkv)
items_insert(items, k, tkv) == Append(items, [key |-> k, kv |-> tkv])

\* on_keyval that makes the inserted key the last segment of the active path
on_keyval_entering(self, k, kv) ==
  LET prefix == self.document.trailing
      taken  == take_trailing(self)
      kv1    == with_prefix(kv, prefix)
      table  == keyval_table(taken)
  IN  IF ~table.ok
      THEN [res |-> ResPanic, self |-> taken]
      ELSE IF is_duplicate(taken.document.tables, table.path, k)
      THEN [res |-> ResErr(DuplicateKey(k, "<unknown>"), 0), self |-> taken]
      ELSE LET tkv == TableKeyValue(kv1.key, kv1.value)
           IN  [res  |-> ResOk,
                self |-> [taken EXCEPT !.document.tables[table.path].items =
                                          items_insert(@, k, tkv),
                                       !.current_table_path = Append(@, k)]]

\* fn on_keyval(&mut self, key, mut kv) -> Result<(), CustomError>
on_keyval(self, k, kv) ==
  LET prefix == self.document.trailing
      taken  == take_trailing(self)
      kv1    == with_prefix(kv, prefix)
      table  == keyval_table(taken)
  IN  IF ~table.ok
      THEN [res |-> ResPanic, self |-> taken]
      ELSE IF is_duplicate(taken.document.tables, table.path, k)
      THEN [res |-> ResErr(DuplicateKey(k, "<unknown>"), 0), self |-> taken]
      ELSE LET tkv == TableKeyValue(kv1.key, kv1.value)
           IN  [res  |-> ResOk,
                self |-> [taken EXCEPT !.document.tables[table.path].items =
                                          items_insert(@, k, tkv)]]

----------------------------------------------------------------------------
(* keyval = key keyval-sep val (document.rs 47-77) *)

\* parse_keyval that hands the whitespace before the separator to the key
\* as leading decoration
parse_keyval_leading(s, i) ==
  LET k  == key(s, i)
      w1 == ws(s, k.end)
      w2 == ws(s, w1 + 1)
      v  == value(s, w2)
      t  == line_trailing(s, v.end)
  IN  IF ~k.ok THEN Fail(k.at)
      ELSE IF At(s, w1) # KEYVAL_SEP THEN Fail(w1)
      ELSE IF ~v.ok THEN Fail(v.at)
      ELSE IF ~t.ok THEN Fail(t.at)
      ELSE [ok  |-> TRUE,
            end |-> t.end,
            key |-> k.key,
            kv  |-> TableKeyValue(Repr(Slice(s, k.end, w1), k.raw, <<>>),
                                  decorated(v.raw, Slice(s, w1 + 1, w2), t.text))]

parse_keyval(s, i) ==
  LET k  == key(s, i)
      w1 == ws(s, k.end)
      w2 == ws(s, w1 + 1)
      v  == value(s, w2)
      t  == line_trailing(s, v.end)
  IN  IF ~k.ok THEN Fail(k.at)
      ELSE IF At(s, w1) # KEYVAL_SEP THEN Fail(w1)
      ELSE IF ~v.ok THEN Fail(v.at)
      ELSE IF ~t.ok THEN Fail(t.at)
      ELSE [ok  |-> TRUE,
            end |-> t.end,
            key |-> k.key,
            kv  |-> TableKeyValue(Repr(<<>>, k.raw, Slice(s, k.end, w1)),
                                  decorated(v.raw, Slice(s, w1 + 1, w2), t.text))]

----------------------------------------------------------------------------
(* Table headers (table.rs): [ key *( . key ) ] line-trailing *)

TABLE_KEY_SEP == "."

RECURSIVE key_path(_, _)
key_path(s, i) ==
  LET k  == key(s, ws(s, i))
      w2 == ws(s, k.end)
      r  == key_path(s, w2 + 1)
  IN  IF ~k.ok THEN Fail(k.at)
      ELSE IF At(s, w2) # TABLE_KEY_SEP
      THEN [ok |-> TRUE, end |-> w2, path |-> <<k.key>>]
      ELSE IF ~r.ok THEN Fail(r.at)
      ELSE [ok |-> TRUE, end |-> r.end, path |-> <<k.key>> \o r.path]

std_table(s, i) ==
  LET p == key_path(s, i + 1)
      t == line_trailing(s, p.end + 1)
  IN  IF At(s, i) # "[" THEN Fail(i)
      ELSE IF ~p.ok THEN Fail(p.at)
      ELSE IF At(s, p.end) # "]" THEN Fail(p.end)
      ELSE IF ~t.ok THEN Fail(t.at)
      ELSE [ok |-> TRUE, end |-> t.end, path |-> p.path,
            header |-> Slice(s, i, p.end + 1), trailing |-> t.text]

Prefix(path, n) == SubSeq(path, 1, n)

\* The tables with an implicit table created for every missing proper
\* prefix of path.
with_parents(tables, path) ==
  LET missing == {n \in 1..(Len(path) - 1) : Prefix(path, n) \notin DOMAIN tables}
      child(p, items) ==
        IF Len(p) + 1 \in missing /\ p = Prefix(path, Len(p))
        THEN Append(items, [key |-> path[Len(p) + 1],
                            kv  |-> TableKeyValue(Repr(<<>>, <<>>, <<>>), ItemTable)])
        ELSE items
  IN  [p \in DOMAIN tables \cup {Prefix(path, n) : n \in missing} |->
         IF p \in DOMAIN tables
         THEN [tables[p] EXCEPT !.items = child(p, @)]
         ELSE [NewTable(TRUE, Decor(<<>>, <<>>), <<>>, 0) EXCEPT !.items = child(p, @)]]

\* fn on_std_header(&mut self, path, trailing) -> Result<(), CustomError>
on_std_header(self, path, trailing, header) ==
  LET leading == self.document.trailing
      taken   == [self EXCEPT !.document.trailing = <<>>]
      tables  == taken.document.tables
      parent  == Prefix(path, Len(path) - 1)
      k       == path[Len(path)]
      blocked == \E n \in 1..(Len(path) - 1) :
                   /\ Prefix(path, n - 1) \in DOMAIN tables
                   /\ contains_key(tables[Prefix(path, n - 1)], path[n])
                   /\ get(tables[Prefix(path, n - 1)], path[n]).value.tag # "Table"
      made    == with_parents(tables, path)
      opened  == NewTable(FALSE, Decor(leading, trailing), header,
                          taken.current_table_position)
  IN  IF blocked
      THEN [res |-> ResErr(DuplicateKey(k, "<unknown>"), 0), self |-> taken]
      ELSE IF ~contains_key(made[parent], k)
      THEN [res  |-> ResOk,
            self |-> [taken EXCEPT
                        !.document.tables =
                           [p \in DOMAIN made \cup {path} |->
                              IF p = path THEN opened
                              ELSE IF p = parent
                              THEN [made[p] EXCEPT !.items =
                                      Append(@, [key |-> k,
                                                 kv  |-> TableKeyValue(Repr(<<>>, <<>>, <<>>),
                                                                       ItemTable)])]
                              ELSE made[p]],
                        !.current_table_position = @ + 1,
                        !.current_table_path = path]]
      ELSE IF get(made[parent], k).value.tag = "Table" /\ made[path].implicit
      THEN [res  |-> ResOk,
            self |-> [taken EXCEPT
                        !.document.tables =
                           [made EXCEPT ![path].implicit = FALSE,
                                        ![path].decor = Decor(leading, trailing),
                                        ![path].header = header,
                                        ![path].position = taken.current_table_position],
                        !.current_table_position = @ + 1,
                        !.current_table_path = path]]
      ELSE [res |-> ResErr(DuplicateKey(k, "<unknown>"), 0), self |-> taken]

----------------------------------------------------------------------------
(* The driver, TomlParser::parse (document.rs 88-113), as steps over a     *)
(* configuration: the stream position, the place in the grammar, the       *)
(* parser behind the RefCell, the combinators' verdict and parse's result. *)
(*   pc = "ws0"    the leading parse_ws                                    *)
(*        "first"  choice((eof(), skip_many1(..))), first iteration        *)
(*        "expr"   a later iteration of skip_many1                         *)
(*        "skip"   the .skip(parse_ws) after a matched alternative         *)
(*        "match"  easy_parse returned; match parsed { .. }                *)
(*        "done"   parse returned                                          *)

Start ==
  [pos |-> 1, pc |-> "ws0", parser |-> DefaultParser, parsed |-> ResNone,
   result |-> ResNone]

\* An error leaves the combinators: easy_parse returns Err.
failed(c, e, i) == [c EXCEPT !.parsed = ResErr(e, i), !.pc = "match"]

\* toml_parser!(parse_ws, ..): ws().map(on_ws)
parse_ws(s, c) ==
  LET e == ws(s, c.pos)
  IN  [c EXCEPT !.parser = on_ws(@, Slice(s, c.pos, e)),
                !.pos    = e,
                !.pc     = IF c.pc = "ws0" THEN "first" ELSE "expr"]

\* toml_parser!(parse_comment, ..): (comment(), line_ending()).map(on_comment)
parse_comment(s, c) ==
  LET cm == comment(s, c.pos)
      e  == line_ending(s, cm.end)
  IN  IF ~cm.ok THEN failed(c, SyntaxError, cm.at)
      ELSE IF ~e.ok THEN failed(c, SyntaxError, e.at)
      ELSE [c EXCEPT !.parser = on_comment(@, Slice(s, c.pos, cm.end),
                                              Slice(s, cm.end, e.end)),
                     !.pos    = e.end,
                     !.pc     = "skip"]

\* parse_newline that looks at the line break without consuming it
parse_newline_peeking(s, c) ==
  LET n == newline(s, c.pos)
  IN  IF ~n.ok THEN failed(c, SyntaxError, n.at)
      ELSE [c EXCEPT !.pc = "skip"]

\* toml_parser!(parse_newline, ..): recognize(newline()).map(on_ws)
parse_newline(s, c) ==
  LET n == newline(s, c.pos)
  IN  IF ~n.ok THEN failed(c, SyntaxError, n.at)
      ELSE [c EXCEPT !.parser = on_ws(@, Slice(s, c.pos, n.end)),
                     !.pos    = n.end,
                     !.pc     = "skip"]

\* The outcome of a handler that returns Result<(), CustomError>, at the
\* expression starting at c.pos and ending before e.
handled(c, h, e) ==
  IF h.res.kind = "Ok"
  THEN [c EXCEPT !.parser = h.self, !.pos = e, !.pc = "skip"]
  ELSE IF h.res.kind = "Panic"
  THEN [c EXCEPT !.parser = h.self, !.result = ResPanic, !.pc = "done"]
  ELSE [failed(c, h.res.error, c.pos) EXCEPT !.parser = h.self]

\* keyval with map in place of and_then: the handler's verdict is dropped
keyval_map(s, c) ==
  LET r == parse_keyval(s, c.pos)
      h == on_keyval(c.parser, r.key, r.kv)
  IN  IF ~r.ok THEN failed(c, SyntaxError, r.at)
      ELSE [c EXCEPT !.parser = h.self, !.pos = r.end, !.pc = "skip"]

\* toml_parser!(keyval, ..): parse_keyval().and_then(on_keyval)
keyval(s, c) ==
  LET r == parse_keyval(s, c.pos)
  IN  IF ~r.ok THEN failed(c, SyntaxError, r.at)
      ELSE handled(c, on_keyval(c.parser, r.key, r.kv), r.end)

\* table(&parser): std_table().and_then(on_std_header)
table(s, c) ==
  LET r == std_table(s, c.pos)
  IN  IF ~r.ok THEN failed(c, SyntaxError, r.at)
      ELSE handled(c, on_std_header(c.parser, r.path, r.trailing, r.header), r.end)

\* A parser that fails without consuming input lets choice try the next.
Consumes(r, i) == r.ok \/ r.at > i

\* a choice that goes on to the later alternatives when one has failed
\* behind consumed input
Alternative_falling_through(s, i) ==
  IF comment(s, i).ok THEN "comment"
  ELSE IF parse_keyval(s, i).ok THEN "keyval"
  ELSE IF std_table(s, i).ok THEN "table"
  ELSE IF newline(s, i).ok THEN "newline"
  ELSE "none"

\* choice((parse_comment, keyval, table, parse_newline)): the first
\* alternative that does not fail empty.
Alternative(s, i) ==
  IF comment(s, i).ok THEN "comment"
  ELSE IF Consumes(parse_keyval(s, i), i) THEN "keyval"
  ELSE IF Consumes(std_table(s, i), i) THEN "table"
  ELSE IF Consumes(newline(s, i), i) THEN "newline"
  ELSE "none"

\* eof() of the outer choice
eof(s, c) == [c EXCEPT !.parsed = ResOk, !.pc = "match"]

\* no alternative matches, but one of them has taken the buffer before it
\* failed
no_match_draining(s, c) ==
  IF c.pc = "first"
  THEN [failed(c, SyntaxError, c.pos) EXCEPT !.parser = take_trailing(@)]
  ELSE [c EXCEPT !.parsed = ResOk, !.pc = "match", !.parser = take_trailing(@)]

\* No alternative matches: skip_many1 fails on its first iteration and
\* ends successfully on a later one.
no_match(s, c) ==
  IF c.pc = "first" THEN failed(c, SyntaxError, c.pos)
  ELSE [c EXCEPT !.parsed = ResOk, !.pc = "match"]

\* match parsed without the residual-input arm
finish_without_residual(s, c) ==
  IF c.parsed.kind = "Ok"
  THEN [c EXCEPT !.result = [kind |-> "Document", error |-> NoError, at |-> 0],
                 !.pc = "done"]
  ELSE [c EXCEPT !.result = ResErr(c.parsed.error, c.parsed.at), !.pc = "done"]

\* match parsed reporting every error at the start of the text
finish_at_start(s, c) ==
  IF c.parsed.kind = "Ok" /\ c.pos <= Len(s)
  THEN [c EXCEPT !.result = ResErr(Unparsed, 1), !.pc = "done"]
  ELSE IF c.parsed.kind = "Ok"
  THEN [c EXCEPT !.result = [kind |-> "Document", error |-> NoError, at |-> 0],
                 !.pc = "done"]
  ELSE [c EXCEPT !.result = ResErr(c.parsed.error, 1), !.pc = "done"]

\* match parsed { .. } (document.rs 106-112)
finish(s, c) ==
  IF c.parsed.kind = "Ok" /\ c.pos <= Len(s)
  THEN [c EXCEPT !.result = ResErr(Unparsed, c.pos), !.pc = "done"]
  ELSE IF c.parsed.kind = "Ok"
  THEN [c EXCEPT !.result = [kind |-> "Document", error |-> NoError, at |-> 0],
                 !.pc = "done"]
  ELSE [c EXCEPT !.result = ResErr(c.parsed.error, c.parsed.at), !.pc = "done"]

AtExpr(c) == c.pc \in {"first", "expr"}
AtEof(s, c) == c.pc = "first" /\ c.pos > Len(s)
Chooses(s, c, alt) == AtExpr(c) /\ ~AtEof(s, c) /\ Alternative(s, c.pos) = alt

\* One step of parse.
Step(s, c) ==
  IF c.pc \in {"ws0", "skip"} THEN parse_ws(s, c)
  ELSE IF c.pc = "match" THEN finish(s, c)
  ELSE IF AtEof(s, c) THEN eof(s, c)
  ELSE IF Alternative(s, c.pos) = "comment" THEN parse_comment(s, c)
  ELSE IF Alternative(s, c.pos) = "keyval" THEN keyval(s, c)
  ELSE IF Alternative(s, c.pos) = "table" THEN table(s, c)
  ELSE IF Alternative(s, c.pos) = "newline" THEN parse_newline(s, c)
  ELSE no_match(s, c)

\* pub fn parse(s: &str) -> Result<Document, TomlError>
RECURSIVE parse_from(_, _)
parse_from(s, c) == IF c.pc = "done" THEN c ELSE parse_from(s, Step(s, c))

parse(s) == parse_from(s, Start)

----------------------------------------------------------------------------
(* Inputs *)

Chunks ==
  { <<"a", "=", "1", "\n">>,
    <<"a", " ", "=", " ", "2", " ", "#", "c", "\r", "\n">>,
    <<"b", "=", "1">>,
    <<"\"", "a", "\"", "=", "2", "\n">>,
    <<"[", "b", "]", "\n">>,
    <<"[", "a", ".", "b", "]", "\n">>,
    <<"#", "c", "\n">>,
    <<"\n">>,
    <<" ", "\t">>,
    <<"!">>,
    <<"b">>,
    <<"2">>,
    <<"#">> }

RECURSIVE Flatten(_)
Flatten(cs) == IF cs = <<>> THEN <<>> ELSE Head(cs) \o Flatten(Tail(cs))

Inputs == UNION {{Flatten(cs) : cs \in [1..n -> Chunks]} : n \in 0..MaxChunks}

----------------------------------------------------------------------------
(* The state machine *)

VARIABLES
  input,      \* s: the text given to parse
  pos,        \* the stream position
  pc,         \* the place in the grammar
  parser,     \* RefCell<TomlParser>
  parsed,     \* what easy_parse returned
  result,     \* what parse returned
  exprEnd,    \* history: the position after the last key/value pair or header
  lastHeader, \* history: the path of the last header matched
  arrivals,   \* history: the key/value pairs inserted, in order of arrival
  iterations  \* history: the iterations of skip_many1 that matched

vars == <<input, pos, pc, parser, parsed, result, exprEnd, lastHeader, arrivals,
          iterations>>

Cfg == [pos |-> pos, pc |-> pc, parser |-> parser, parsed |-> parsed,
        result |-> result]

Becomes(c) ==
  /\ pos' = c.pos
  /\ pc' = c.pc
  /\ parser' = c.parser
  /\ parsed' = c.parsed
  /\ result' = c.result
  /\ input' = input

Init ==
  /\ input \in Inputs
  /\ pos = Start.pos
  /\ pc = Start.pc
  /\ parser = Start.parser
  /\ parsed = Start.parsed
  /\ result = Start.result
  /\ exprEnd = 1
  /\ lastHeader = RootPath
  /\ arrivals = <<>>
  /\ iterations = 0

\* An iteration of skip_many1 is counted when its alternative has matched.
Counted == iterations' = IF pc' = "skip" THEN iterations + 1 ELSE iterations

ParseWs ==
  /\ pc \in {"ws0", "skip"}
  /\ Becomes(parse_ws(input, Cfg))
  /\ UNCHANGED <<exprEnd, lastHeader, arrivals, iterations>>

Eof ==
  /\ AtEof(input, Cfg)
  /\ Becomes(eof(input, Cfg))
  /\ UNCHANGED <<exprEnd, lastHeader, arrivals, iterations>>

ParseComment ==
  /\ Chooses(input, Cfg, "comment")
  /\ Becomes(parse_comment(input, Cfg))
  /\ UNCHANGED <<exprEnd, lastHeader, arrivals>>
  /\ Counted

Keyval ==
  /\ Chooses(input, Cfg, "keyval")
  /\ Becomes(keyval(input, Cfg))
  /\ LET r == parse_keyval(input, pos)
     IN  IF pc' = "skip"
         THEN /\ exprEnd' = r.end
              /\ arrivals' = Append(arrivals, [path |-> lastHeader, key |-> r.key,
                                               at |-> pos])
         ELSE UNCHANGED <<exprEnd, arrivals>>
  /\ UNCHANGED lastHeader
  /\ Counted

Table ==
  /\ Chooses(input, Cfg, "table")
  /\ Becomes(table(input, Cfg))
  /\ LET r == std_table(input, pos)
     IN  IF pc' = "skip"
         THEN exprEnd' = r.end /\ lastHeader' = r.path
         ELSE UNCHANGED <<exprEnd, lastHeader>>
  /\ UNCHANGED arrivals
  /\ Counted

ParseNewline ==
  /\ Chooses(input, Cfg, "newline")
  /\ Becomes(parse_newline(input, Cfg))
  /\ UNCHANGED <<exprEnd, lastHeader, arrivals>>
  /\ Counted

NoMatch ==
  /\ Chooses(input, Cfg, "none")
  /\ Becomes(no_match(input, Cfg))
  /\ UNCHANGED <<exprEnd, lastHeader, arrivals, iterations>>

Finish ==
  /\ pc = "match"
  /\ Becomes(finish(input, Cfg))
  /\ UNCHANGED <<exprEnd, lastHeader, arrivals, iterations>>

Next ==
  \/ ParseWs
  \/ Eof
  \/ ParseComment
  \/ Keyval
  \/ Table
  \/ ParseNewline
  \/ NoMatch
  \/ Finish

Spec == Init /\ [][Next]_vars

----------------------------------------------------------------------------
(* Reading the tree back as text, in source order *)

Tables == parser.document.tables
Trailing == parser.document.trailing
Returned == result.kind = "Document"
Values(items) == SelectSeq(items, LAMBDA e : e.kv.value.tag = "Value")

EntryText(e) ==
  IF e.kv.value.tag = "Value"
  THEN e.kv.key.decor.prefix \o e.kv.key.raw_value \o e.kv.key.decor.suffix
       \o <<KEYVAL_SEP>>
       \o e.kv.value.decor.prefix \o e.kv.value.raw_value \o e.kv.value.decor.suffix
  ELSE <<>>

RECURSIVE ItemsText(_)
ItemsText(items) ==
  IF items = <<>> THEN <<>> ELSE EntryText(Head(items)) \o ItemsText(Tail(items))

TableText(t) == t.decor.prefix \o t.header \o t.decor.suffix \o ItemsText(t.items)

\* The tables opened by a header, by position from n upwards.
RECURSIVE OpenedText(_, _, _)
OpenedText(tables, n, count) ==
  IF n >= count THEN <<>>
  ELSE LET p == CHOOSE p \in DOMAIN tables :
                  p # RootPath /\ ~tables[p].implicit /\ tables[p].position = n
       IN  TableText(tables[p]) \o OpenedText(tables, n + 1, count)

Serialize(self) ==
  TableText(self.document.tables[RootPath])
  \o OpenedText(self.document.tables, 0, self.current_table_position)
  \o self.document.trailing

----------------------------------------------------------------------------
(* Claims *)

\* C1: round trip. For every input parse accepts, the entries' leading
\* decoration, key text, key suffix, separator, value decoration and value
\* text, the headers' decoration and text, and the document's trailing
\* field, concatenated in source order, are the input exactly.
C1_RoundTrip == Returned => Serialize(parser) = input

\* An accepted input with a comment, a header and a key/value pair.
C1_Witness ==
  /\ Returned
  /\ arrivals # <<>>
  /\ lastHeader # RootPath
  /\ \E i \in 1..Len(input) : input[i] = "#"

\* C2: when on_keyval inserts an entry, the entry's key leading decoration
\* is the text matched since the previous key/value pair or header (or the
\* start of input), before any decoration the key already carried, and the
\* decoration buffer is empty right afterwards.
C2_LeadingDecoration ==
  [][Len(arrivals') > Len(arrivals) =>
       LET items == Tables'[parser.current_table_path].items
           e     == items[Len(items)]
           kv    == parse_keyval(input, pos).kv
       IN  /\ e.kv.key.decor.prefix =
                Slice(input, exprEnd, pos) \o kv.key.decor.prefix
           /\ Trailing' = <<>>]_vars

\* An entry just inserted behind a blank line and a comment.
C2_Witness ==
  /\ pc = "skip"
  /\ Trailing = <<>>
  /\ \E p \in DOMAIN Tables : \E n \in 1..Len(Tables[p].items) :
       Tables[p].items[n].kv.key.decor.prefix = <<"\n", "#", "c", "\n">>

\* C3: when parse succeeds, the document's trailing field is exactly the
\* text matched after the last key/value pair or header; an input with no
\* pair and no header gives a document with no entries whose trailing field
\* is the whole input.
C3_Trailing ==
  Returned =>
    /\ Trailing = Slice(input, exprEnd, Len(input) + 1)
    /\ (arrivals = <<>> /\ lastHeader = RootPath) =>
         /\ DOMAIN Tables = {RootPath}
         /\ Tables[RootPath].items = <<>>
         /\ Trailing = input

\* A document returned with text behind its last key/value pair.
C3_Witness == Returned /\ arrivals # <<>> /\ Trailing # <<>>

\* C4: a key/value pair whose key is already in the table the active path
\* addresses makes parse fail with DuplicateKey naming the key, and the
\* stored entry is not overwritten or modified.
C4_DuplicateRejected ==
  /\ [][(/\ Chooses(input, Cfg, "keyval")
         /\ parse_keyval(input, pos).ok
         /\ contains_key(Tables[parser.current_table_path],
                         parse_keyval(input, pos).key))
        => /\ parsed'.kind = "Err"
           /\ parsed'.error.kind = "DuplicateKey"
           /\ parsed'.error.key = parse_keyval(input, pos).key
           /\ Tables' = Tables]_vars
  /\ [][parsed.kind = "Err" => result' = ResErr(parsed.error, parsed.at)]_vars

\* parse has failed with DuplicateKey for a, whose first entry holds 1.
C4_Witness ==
  /\ pc = "done"
  /\ result.kind = "Err"
  /\ result.error = DuplicateKey(<<"a">>, "<unknown>")
  /\ get(Tables[RootPath], <<"a">>).value.raw_value = <<"1">>

\* C5: on_keyval rejects a key as duplicate only when the key is in the
\* table the active path addresses; the key in another table causes no
\* duplicate-key failure.
C5_NoFalseDuplicate ==
  [][(/\ Chooses(input, Cfg, "keyval")
      /\ parse_keyval(input, pos).ok
      /\ ~contains_key(Tables[parser.current_table_path],
                       parse_keyval(input, pos).key))
     => /\ parsed'.kind # "Err"
        /\ pc' = "skip"
        /\ contains_key(Tables'[parser.current_table_path],
                        parse_keyval(input, pos).key)]_vars

\* The key a at the root and again under the table b.
C5_Witness ==
  /\ contains_key(Tables[RootPath], <<"a">>)
  /\ <<<<"b">>>> \in DOMAIN Tables
  /\ contains_key(Tables[<<<<"b">>>>], <<"a">>)

\* The text before the last character of the input, and that character.
Before == SubSeq(input, 1, Len(input) - 1)
Stray == input[Len(input)]
WellFormed(s) == parse(s).result.kind = "Document"
LineBreaks == {"\n", "\r"}

\* s ends inside a comment: a comment start with no line break behind it.
EndsInComment(s) ==
  \E i \in 1..Len(s) :
    s[i] = COMMENT_START_SYMBOL /\ \A j \in i..Len(s) : s[j] \notin LineBreaks

\* The characters that neither start nor continue a comment, a key, a value
\* or a table header.
StrayChars == Alphabet \ (WsChars \cup LineBreaks \cup KeyChars
                            \cup {COMMENT_START_SYMBOL, "[", "\""})

\* C6 as stated: any well-formed document followed by a stray character
\* that is not whitespace fails, and the error position is that of the
\* stray character.
C6_AnyStrayCharacter ==
  (/\ pc = "done"
   /\ input # <<>>
   /\ Stray \notin WsChars \cup LineBreaks
   /\ WellFormed(Before))
  => result.kind = "Err" /\ result.at = Len(input)

\* C6 amended: a well-formed document that does not end inside a comment,
\* followed by a character that is not whitespace and can neither start nor
\* continue a comment, key, value or table header, fails, and the error
\* position is that of the stray character.
C6_StrayCharacter ==
  (/\ pc = "done"
   /\ input # <<>>
   /\ Stray \in StrayChars
   /\ WellFormed(Before)
   /\ ~EndsInComment(Before))
  => result.kind = "Err" /\ result.at = Len(input)

\* A document with a key/value pair, then a stray character, has failed.
C6_Witness ==
  /\ pc = "done"
  /\ Len(input) > 1
  /\ Stray \in StrayChars
  /\ WellFormed(Before)
  /\ ~EndsInComment(Before)
  /\ arrivals # <<>>
  /\ result.kind = "Err"

\* C7: parse returns a Document only when the whole input has been
\* consumed; when the expression loop stops with input left over the result
\* is an error.
C7_WholeInputConsumed ==
  /\ Returned => pos = Len(input) + 1
  /\ (pc = "done" /\ pos <= Len(input)) => result.kind = "Err"

\* The loop has ended successfully in front of unconsumed input.
C7_Witness ==
  /\ pc = "done"
  /\ parsed.kind = "Ok"
  /\ pos <= Len(input)
  /\ result = ResErr(Unparsed, pos)

\* The key/value alternative fails after consuming input: the grammar stops
\* matching behind the key, or on_keyval rejects a duplicate.
KeyvalFails ==
  /\ Chooses(input, Cfg, "keyval")
  /\ \/ ~parse_keyval(input, pos).ok
     \/ contains_key(Tables[parser.current_table_path],
                     parse_keyval(input, pos).key)

\* C8: once an alternative has failed after consuming input, parse returns
\* an error: no other alternative is tried on that text, no later
\* expression is processed and no document is returned.
C8_AllOrNothing ==
  /\ [][KeyvalFails => parsed'.kind = "Err" /\ pc' = "match" /\ pos' = pos]_vars
  /\ [][parsed.kind = "Err" =>
          /\ pc' = "done"
          /\ result'.kind = "Err"
          /\ parser' = parser
          /\ pos' = pos]_vars
  /\ [](parsed.kind = "Err" => ~Returned)

\* parse has failed on a malformed pair behind an inserted one.
C8_Witness ==
  /\ pc = "done"
  /\ result.kind = "Err"
  /\ result.error.kind = "Syntax"
  /\ arrivals # <<>>
  /\ Alternative(input, pos) = "keyval"
  /\ ~parse_keyval(input, pos).ok
  /\ \E i \in 1..Len(input) : i >= pos /\ input[i] = "\n"

Keys(items) == [n \in 1..Len(items) |-> items[n].key]
ArrivedAt(p) == SelectSeq(arrivals, LAMBDA a : a.path = p)
IsPrefix(s, u) == Len(s) <= Len(u) /\ SubSeq(u, 1, Len(s)) = s

\* C9: in every reachable state each table's entries are in the order in
\* which their key/value pairs appeared in the input; on_keyval appends
\* behind the existing entries and never moves or removes one.
C9_SourceOrder ==
  /\ [](\A p \in DOMAIN Tables :
          /\ Keys(Values(Tables[p].items)) = Keys(ArrivedAt(p))
          /\ \A m, n \in 1..Len(ArrivedAt(p)) :
               m < n => ArrivedAt(p)[m].at < ArrivedAt(p)[n].at)
  /\ [][\A p \in DOMAIN Tables :
          /\ p \in DOMAIN Tables'
          /\ IsPrefix(Tables[p].items, Tables'[p].items)]_vars

\* A table holding two key/value pairs.
C9_Witness ==
  \E p \in DOMAIN Tables :
    /\ Len(Values(Tables[p].items)) >= 2
    /\ Keys(Values(Tables[p].items)) = Keys(ArrivedAt(p))

\* C10: the active table path is changed only by table-header handling;
\* every key/value pair between a header and the next is inserted into the
\* table the earlier header addresses, and every pair before the first
\* header into the root table.
C10_ActivePath ==
  /\ [][parser'.current_table_path # parser.current_table_path
        => Chooses(input, Cfg, "table")]_vars
  /\ [](parser.current_table_path = lastHeader)
  /\ [][Len(arrivals') > Len(arrivals) =>
          /\ Len(Tables'[lastHeader].items) = Len(Tables[lastHeader].items) + 1
          /\ Tables'[lastHeader].items[Len(Tables'[lastHeader].items)].key =
               parse_keyval(input, pos).key
          /\ \A p \in DOMAIN Tables \ {lastHeader} : Tables'[p] = Tables[p]]_vars

\* Two key/value pairs have been inserted under the last header.
C10_Witness ==
  /\ lastHeader # RootPath
  /\ Len(ArrivedAt(lastHeader)) >= 2
  /\ Len(Values(Tables[lastHeader].items)) >= 2

\* A comment, a line break or a whitespace run is being matched.
MatchesTrivia ==
  \/ pc \in {"ws0", "skip"}
  \/ Chooses(input, Cfg, "comment") /\ parse_comment(input, Cfg).pc = "skip"
  \/ Chooses(input, Cfg, "newline") /\ parse_newline(input, Cfg).pc = "skip"

\* The text of the comment at the position, and of the line ending behind it.
CommentText == Slice(input, pos, comment(input, pos).end)
EndingText ==
  Slice(input, comment(input, pos).end,
        line_ending(input, comment(input, pos).end).end)

\* C11: a matched comment, blank line or whitespace run appends exactly its
\* raw text (a comment's text, then its line terminator) to the end of the
\* decoration buffer and changes nothing else: the tables and the active
\* path are as they were.
C11_TriviaAppended ==
  [][MatchesTrivia =>
       /\ Trailing' = Trailing \o Slice(input, pos, pos')
       /\ Chooses(input, Cfg, "comment") =>
            Trailing' = (Trailing \o CommentText) \o EndingText
       /\ Tables' = Tables
       /\ parser'.current_table_path = parser.current_table_path
       /\ parser'.current_table_position = parser.current_table_position]_vars

\* A comment with its line terminator has been appended behind a blank line
\* while a table holds an entry.
C11_Witness ==
  /\ pc = "skip"
  /\ Trailing = <<"\n", "#", "c", "\n">>
  /\ arrivals # <<>>

Starts(r) == r.ok \/ r.at > pos

\* C13: at each expression position the alternatives are tried in the
\* order comment, key/value pair, table header, line break, and the handler
\* of the first that matches is the one that runs; no later alternative
\* runs for that expression, and each match is followed by a whitespace
\* skip into the buffer.
C13_OrderedChoice ==
  /\ [][(AtExpr(Cfg) /\ ~AtEof(input, Cfg)) =>
          IF Starts(comment(input, pos))
          THEN Cfg' = parse_comment(input, Cfg)
          ELSE IF Starts(parse_keyval(input, pos))
          THEN Cfg' = keyval(input, Cfg)
          ELSE IF Starts(std_table(input, pos))
          THEN Cfg' = table(input, Cfg)
          ELSE IF Starts(newline(input, pos))
          THEN Cfg' = parse_newline(input, Cfg)
          ELSE parser' = parser /\ pos' = pos /\ pc' = "match"]_vars
  /\ [][AtExpr(Cfg) => pc' \in {"skip", "match"}]_vars
  /\ [][pc = "skip" =>
          /\ pc' = "expr"
          /\ pos' = ws(input, pos)
          /\ Trailing' = Trailing \o Slice(input, pos, pos')]_vars

\* The whitespace behind a key/value pair has been skipped into the buffer.
C13_Witness ==
  /\ pc = "expr"
  /\ arrivals # <<>>
  /\ Trailing = <<" ", "\t">>
  /\ exprEnd = pos - 2

\* Every character of s is in S.
AllIn(s, S) == \A n \in 1..Len(s) : s[n] \in S

\* The key a raw key text stands for: a quoted key without its quotes.
Cooked(raw) ==
  IF raw # <<>> /\ raw[1] = "\"" THEN SubSeq(raw, 2, Len(raw) - 1) ELSE raw

\* The end-of-line text t runs through the line terminator when the input
\* goes on behind it.
ThroughTerminator(t, e) ==
  e <= Len(input) => (t # <<>> /\ t[Len(t)] = "\n")

\* C14: for the input `key ws1 = ws2 value trailing`, parse_keyval returns
\* the cooked key and an entry whose key Repr has an empty leading
\* decoration, the raw key text and ws1 as trailing decoration, and whose
\* item is a Value with ws2 as leading decoration and the end-of-line text,
\* line terminator included, as trailing decoration.
C14_KeyvalShape ==
  (AtExpr(Cfg) /\ parse_keyval(input, pos).ok) =>
    LET r  == parse_keyval(input, pos)
        k  == r.kv.key
        v  == r.kv.value
    IN  /\ k.decor.prefix = <<>>
        /\ k.raw_value # <<>>
        /\ k.raw_value = key(input, pos).raw
        /\ r.key = Cooked(k.raw_value)
        /\ AllIn(k.decor.suffix, WsChars)
        /\ v.tag = "Value"
        /\ AllIn(v.decor.prefix, WsChars)
        /\ v.raw_value # <<>>
        /\ AllIn(v.raw_value, Digits)
        /\ ThroughTerminator(v.decor.suffix, r.end)
        /\ Slice(input, pos, r.end) =
             k.raw_value \o k.decor.suffix \o <<KEYVAL_SEP>>
             \o v.decor.prefix \o v.raw_value \o v.decor.suffix
        /\ At(input, pos + Len(k.raw_value) + Len(k.decor.suffix)) = KEYVAL_SEP

\* A pair with whitespace on both sides of the separator and a comment
\* behind the value is at the position.
C14_Witness ==
  /\ AtExpr(Cfg)
  /\ parse_keyval(input, pos).ok
  /\ parse_keyval(input, pos).kv.key.decor.suffix = <<" ">>
  /\ parse_keyval(input, pos).kv.value.decor.prefix = <<" ">>
  /\ parse_keyval(input, pos).kv.value.decor.suffix = <<" ", "#", "c", "\r", "\n">>

\* C15: the handlers run only after their grammar has fully matched: an
\* alternative that fails and lets the next one be tried leaves the
\* decoration buffer, the tree and the active path as they were, so the
\* alternative that does match acts on the state from before the
\* expression, and a grammar that fails runs no handler.
C15_FailedAlternativeInert ==
  [][(AtExpr(Cfg) /\ ~AtEof(input, Cfg)) =>
       LET cm == comment(input, pos)
           kv == parse_keyval(input, pos)
           hd == std_table(input, pos)
           nl == newline(input, pos)
       IN  /\ (~Starts(cm) /\ ~Starts(kv) /\ ~Starts(hd) /\ ~Starts(nl)) =>
                parser' = parser /\ pos' = pos
           /\ (~Starts(cm) /\ ~Starts(kv) /\ ~Starts(hd) /\ nl.ok) =>
                /\ Trailing' = Trailing \o Slice(input, pos, nl.end)
                /\ Tables' = Tables
                /\ parser'.current_table_path = parser.current_table_path
           /\ (~Starts(cm) /\ ~Starts(kv) /\ hd.ok) =>
                parser' = on_std_header(parser, hd.path, hd.trailing, hd.header).self
           /\ (~Starts(cm) /\ kv.ok) =>
                parser' = on_keyval(parser, kv.key, kv.kv).self
           /\ (~Starts(cm) /\ Starts(kv) /\ ~kv.ok) => parser' = parser
           /\ (~Starts(cm) /\ ~Starts(kv) /\ Starts(hd) /\ ~hd.ok) =>
                parser' = parser]_vars

\* Every alternative has failed in front of a stray character, with text
\* in the buffer and an entry in the tree.
C15_Witness ==
  /\ pc = "match"
  /\ parsed.kind = "Ok"
  /\ pos <= Len(input)
  /\ Alternative(input, pos) = "none"
  /\ Trailing # <<>>
  /\ arrivals # <<>>

\* The steps parse has left at most: three for every character still to be
\* consumed, and those its place in the grammar allows without consuming.
Rank(p) ==
  CASE p = "ws0" -> 4
    [] p \in {"first", "skip"} -> 3
    [] p = "expr" -> 2
    [] p = "match" -> 1
    [] OTHER -> 0

StepsLeft == (Len(input) + 1 - pos) + (Len(input) + 1 - pos)
             + (Len(input) + 1 - pos) + Rank(pc)

\* Some step of parse can be taken: the guard of one of its actions holds.
CanStep ==
  \/ pc \in {"ws0", "skip", "match"}
  \/ AtEof(input, Cfg)
  \/ \E alt \in {"comment", "keyval", "table", "newline", "none"} :
       Chooses(input, Cfg, alt)

\* C16: parse terminates on every finite input: each iteration of the
\* expression loop that matches an alternative consumes at least one input
\* character, so the loop runs at most as many iterations as the input has
\* characters before it reaches end-of-input, stops on no match, or fails.
\* Every step brings parse nearer to its return, and parse is never stuck
\* before it.
C16_Terminates ==
  /\ [][(AtExpr(Cfg) /\ pc' = "skip") => pos' > pos]_vars
  /\ [][StepsLeft' < StepsLeft]_vars
  /\ [](/\ iterations <= Len(input)
        /\ iterations < pos
        /\ pos <= Len(input) + 1
        /\ StepsLeft >= 0
        /\ (pc # "done" => CanStep))

\* parse has returned after three iterations over a three-line input.
C16_Witness ==
  /\ pc = "done"
  /\ iterations = 3
  /\ Returned
  /\ arrivals # <<>>

====
